---- MODULE Spec2Model ----
(***************************************************************************)
(* Assignment grid of the teacher scheduler: the page state (data,         *)
(* isLoading, error), the backing store of teachers, the grid's view       *)
(* state, and the drag-and-drop relocation of one assignment between       *)
(* cells (SchedulerGrid.handleDragEnd -> Home.handleAssignmentUpdate).     *)
(* Strings that the code parses (column ids, group ids, course names) are  *)
(* sequences of one-character strings.                                     *)
(***************************************************************************)
EXTENDS Integers, Sequences, FiniteSets, TLC

VARIABLES
  kvTeachers,        \* backing store: value of key scheduler:teachers
  data,              \* Home: data (<<>> = null, else <<[teachers, courseGroups]>>)
  isLoading,         \* Home: isLoading
  error,             \* Home: error (TRUE = an error message is set)
  fetch,             \* fetchSchedulerData in flight: [phase, teachers]
  patchPending,      \* handleInlineUpdate awaiting teacherApi.update
  edits,             \* number of max-load edits issued so far
  state,             \* usePersistedSchedulerState: state
  activeAssignment,  \* SchedulerGrid: activeAssignment (<<>> = null)
  active,            \* DndContext: the active draggable's data (<<>> = none)
  lastEvent,         \* the last drop or reload and its inputs ("other" for any other handler)
  emitted,           \* onAssignmentUpdate calls made by the last handler
  toasts,            \* toast notifications shown by the last handler
  kvCourseGroups,    \* backing store: value of key scheduler:catalog:groups
  kvCourses,         \* backing store: value of key scheduler:catalog:courses
  response,          \* the last API request and its response
  localStorage,      \* window.localStorage item 'scheduler-ui-state' (<<>> = null)
  sorting            \* SchedulerGrid: sorting (the table's SortingState)

vars == <<kvTeachers, data, isLoading, error, fetch, patchPending, edits,
          state, activeAssignment, active, lastEvent, emitted, toasts,
          kvCourseGroups, kvCourses, response, localStorage, sorting>>

----------------------------------------------------------------------------
(* Bounds of the model *)

\* max-load edits issued in one behaviour
MaxEdits == 1
\* edited max-load values are drawn from 0..MaxEditValue
MaxEditValue == 1

\* edited group order values are drawn from 0..MaxOrder
MaxOrder == 2

(* Program constants *)

\* InlineEditableNumber max={40}
MaxLoadLimit == 40
\* fetchSchedulerData: .slice(0, 10)
MaxRows == 10

----------------------------------------------------------------------------
(* Strings as character sequences *)

sCCW == <<"C", "C", "W">>
sCCW6 == sCCW \o <<"6">>
sCCW7 == sCCW \o <<"7">>
sUS == <<"_">>
\* teacher names
sAnn == <<"A", "n", "n">>
sBob == <<"B", "o", "b">>
\* "CCW6_CCW6"
colCCW6 == sCCW6 \o sUS \o sCCW6
\* "CCW6_CCW_E_6"
colCCWE6 == sCCW6 \o sUS \o sCCW \o sUS \o <<"E">> \o sUS \o <<"6">>
\* "CCW7_CCW7"
colCCW7 == sCCW7 \o sUS \o sCCW7

----------------------------------------------------------------------------
(* Sequence helpers (Array.prototype.filter / find / reduce / includes) *)

Includes(s, x) == \E i \in 1..Len(s) : s[i] = x

RECURSIVE SumSeq(_)
SumSeq(s) == IF s = <<>> THEN 0 ELSE Head(s) + SumSeq(Tail(s))

Min(a, b) == IF a < b THEN a ELSE b

StartsWith(s, p) == Len(p) <= Len(s) /\ SubSeq(s, 1, Len(p)) = p

\* String.prototype.split("_")
RECURSIVE SplitUS(_, _)
SplitUS(s, cur) ==
  IF s = <<>> THEN <<cur>>
  ELSE IF Head(s) = "_" THEN <<cur>> \o SplitUS(Tail(s), <<>>)
  ELSE SplitUS(Tail(s), Append(cur, Head(s)))

\* Array.prototype.join("")
RECURSIVE JoinAll(_)
JoinAll(parts) == IF parts = <<>> THEN <<>> ELSE Head(parts) \o JoinAll(Tail(parts))

\* replace(/_/g, ' ')
ReplaceUS(s) == [i \in 1..Len(s) |-> IF s[i] = "_" THEN " " ELSE s[i]]

parseCourseNameFromColumnId(columnId, groupId) ==
  LET prefix == groupId \o sUS IN
  IF StartsWith(columnId, prefix)
  THEN ReplaceUS(SubSeq(columnId, Len(prefix) + 1, Len(columnId)))
  ELSE IF ~Includes(columnId, "_") THEN columnId
  ELSE LET parts == Tail(SplitUS(columnId, <<>>)) IN
       IF Len(parts) = 1 THEN parts[1]
       ELSE LET base == parts[1]
                suffix == parts[Len(parts)]
                middle == SubSeq(parts, 2, Len(parts) - 1)
            IN IF Len(middle) > 0
               THEN base \o <<"(">> \o JoinAll(middle) \o <<")">> \o suffix
               ELSE base \o suffix

----------------------------------------------------------------------------
(* Teacher metrics: lib/calculations *)

CountedLoadOf(a) == IF a.isCPT THEN 0 ELSE a.load
StudentsOf(a) == a.students

MapSeq(s, Op(_)) == [i \in 1..Len(s) |-> Op(s[i])]

\* Array.prototype.findIndex, counted from 1 (0 = not found)
FindIndex(s, Test(_)) ==
  IF \E i \in 1..Len(s) : Test(s[i])
  THEN CHOOSE i \in 1..Len(s) : Test(s[i]) /\ \A j \in 1..(i - 1) : ~Test(s[j])
  ELSE 0

\* object[field] !== undefined
Has(object, field) == field \in DOMAIN object

\* {...target, ...updates}
Merge(target, updates) == updates @@ target

\* mutant of calculateTeacherMetrics: CPT assignments count towards the load
calculateTeacherMetrics_CountsCPT(teacher) ==
  LET totalLoad == SumSeq(MapSeq(teacher.assignments, LAMBDA a : a.load)) IN
  [totalLoad |-> totalLoad,
   availablePeriods |-> teacher.maxLoad - totalLoad,
   totalStudents |-> SumSeq(MapSeq(teacher.assignments, StudentsOf))]

calculateTeacherMetrics(teacher) ==
  LET totalLoad == SumSeq(MapSeq(teacher.assignments, CountedLoadOf)) IN
  [totalLoad |-> totalLoad,
   availablePeriods |-> teacher.maxLoad - totalLoad,
   totalStudents |-> SumSeq(MapSeq(teacher.assignments, StudentsOf))]

\* mutant of enhanceTeacherWithMetrics: the teacher is spread last, so the
\* fields it already carries win over the computed ones
enhanceTeacherWithMetrics_SpreadLast(teacher) ==
  LET metrics == calculateTeacherMetrics(teacher) IN
  Merge([totalLoad |-> metrics.totalLoad,
         availablePeriods |-> metrics.availablePeriods,
         students |-> metrics.totalStudents,
         preps |-> Len(teacher.assignments)],
        teacher)

\* {...teacher, totalLoad, availablePeriods, students, preps}
enhanceTeacherWithMetrics(teacher) ==
  LET metrics == calculateTeacherMetrics(teacher) IN
  Merge(teacher,
        [totalLoad |-> metrics.totalLoad,
         availablePeriods |-> metrics.availablePeriods,
         students |-> metrics.totalStudents,
         preps |-> Len(teacher.assignments)])

----------------------------------------------------------------------------
(* Catalog and initial store contents *)

CourseGroups ==
  << [id |-> sCCW6, order |-> 1, columns |-> <<colCCW6, colCCWE6>>,
      columnMetadata |-> << [columnId |-> colCCW6, periodsPerCycle |-> 4] >>],
     [id |-> sCCW7, order |-> 2, columns |-> <<colCCW7>>,
      columnMetadata |-> <<>>] >>

Divisions == {"MS", "HS"}

Asg(cid, name, group, load, cpt, students) ==
  [courseId |-> cid, courseName |-> name, courseGroup |-> group,
   load |-> load, isCPT |-> cpt, students |-> students]

StoredTeacher(id, name, div, maxLoad, asgs) ==
  [id |-> id, name |-> name, division |-> div, maxLoad |-> maxLoad,
   assignments |-> asgs]

\* Two teachers teach the same catalog course (AssignmentsEditor sets
\* courseId: course.id); the second also holds a CPT assignment.
StoreShared ==
  << StoredTeacher("t1", sAnn, "MS", 4, << Asg("c1", sCCW6, sCCW6, 3, FALSE, 10) >>),
     StoredTeacher("t2", sBob, "HS", 4, << Asg("c1", sCCW6, sCCW6, 2, FALSE, 0),
                                     Asg("c7", sCCW7, sCCW7, 4, TRUE, 5) >>) >>

\* One teacher with one item, one teacher with none.
StoreOneZero ==
  << StoredTeacher("t1", sAnn, "MS", 4, << Asg("c1", sCCW6, sCCW6, 3, FALSE, 10) >>),
     StoredTeacher("t2", sBob, "MS", 2, <<>>) >>

InitialStores == {StoreShared, StoreOneZero}

\* sortBy: <<>> = null; lastAccessed (a timestamp) is left out
DEFAULT_STATE ==
  [collapsedCourseGroups |-> <<>>, collapsedDivisions |-> <<>>,
   sortBy |-> <<>>, prepsThreshold |-> 3]

\* JSON.stringify(value) as stored by setItem: an item that parses back to
\* the value it was made from
JSONstringify(value) == [text |-> "json", value |-> <<value>>]

\* an item that JSON.parse throws on
Unparsable == [text |-> "garbage", value |-> <<>>]

\* getLocalStorage(key, defaultValue); storage is <<>> when getItem is null
getLocalStorage(storage, defaultValue) ==
  IF storage = <<>> THEN defaultValue
  ELSE IF storage[1].text = "json" THEN storage[1].value[1]
  ELSE defaultValue

\* setLocalStorage(key, value)
setLocalStorage(value) == << JSONstringify(value) >>

----------------------------------------------------------------------------
(* Derived grid: SchedulerGrid render *)

Teachers == IF data = <<>> THEN <<>> ELSE data[1].teachers
Groups == IF data = <<>> THEN <<>> ELSE data[1].courseGroups

\* the grid is rendered only when Home is past its loading and error returns
GridMounted == ~isLoading /\ ~error /\ data # <<>>

IsVisibleTeacher(st, teacher) == ~Includes(st.collapsedDivisions, teacher.division)

\* mutant of visibleTeachers: the division filter is missing
visibleTeachers_Unfiltered(teachers, st) == teachers

visibleTeachers(teachers, st) ==
  SelectSeq(teachers, LAMBDA t : IsVisibleTeacher(st, t))

visibleCourseGroups(groups, st) ==
  SelectSeq(groups, LAMBDA g : ~Includes(st.collapsedCourseGroups, g.id))

\* teacher.assignments.find(a => a.courseName === courseName && a.courseGroup === group.id)
RECURSIVE FindAssignment(_, _, _)
FindAssignment(assignments, courseName, groupId) ==
  IF assignments = <<>> THEN <<>>
  ELSE IF Head(assignments).courseName = courseName /\ Head(assignments).courseGroup = groupId
       THEN <<Head(assignments)>>
       ELSE FindAssignment(Tail(assignments), courseName, groupId)

\* teachers.find(t => t.id === id)
RECURSIVE FindTeacher(_, _)
FindTeacher(teachers, id) ==
  IF teachers = <<>> THEN <<>>
  ELSE IF Head(teachers).id = id THEN <<Head(teachers)>>
       ELSE FindTeacher(Tail(teachers), id)

\* one AssignmentCell per visible teacher and visible column
Cell(teacher, group, columnId) ==
  LET courseName == parseCourseNameFromColumnId(columnId, group.id) IN
  [teacherId |-> teacher.id, courseGroup |-> group.id, courseName |-> courseName,
   assignment |-> FindAssignment(teacher.assignments, courseName, group.id)]

ColumnsOfGroup(group) ==
  MapSeq(group.columns,
         LAMBDA columnId :
           [courseGroup |-> group, columnId |-> columnId,
            courseName |-> parseCourseNameFromColumnId(columnId, group.id)])

RECURSIVE FlatMapColumns(_)
FlatMapColumns(groups) ==
  IF groups = <<>> THEN <<>>
  ELSE ColumnsOfGroup(Head(groups)) \o FlatMapColumns(Tail(groups))

courseColumns(groups, st) == FlatMapColumns(visibleCourseGroups(groups, st))

Range(s) == { s[i] : i \in 1..Len(s) }

RenderedCells ==
  { Cell(t, col.courseGroup, col.columnId) :
      t \in Range(visibleTeachers(Teachers, state)),
      col \in Range(courseColumns(Groups, state)) }

DragId(cell) == [kind |-> "drag", teacherId |-> cell.teacherId,
                 courseGroup |-> cell.courseGroup, courseName |-> cell.courseName]
DropId(cell) == [kind |-> "drop", teacherId |-> cell.teacherId,
                 courseGroup |-> cell.courseGroup, courseName |-> cell.courseName]

\* useDraggable({id, data}) of a cell holding an assignment
Draggable(cell) ==
  [id |-> DragId(cell),
   data |-> [assignment |-> cell.assignment[1], teacherId |-> cell.teacherId,
             courseGroup |-> cell.courseGroup]]

\* useDroppable({id, data})
Droppable(cell) ==
  [id |-> DropId(cell),
   data |-> [teacherId |-> cell.teacherId, courseGroup |-> cell.courseGroup,
             courseName |-> cell.courseName]]

----------------------------------------------------------------------------
(* Aggregation: useSummaryCalculations *)

\* mutant of ColumnTotals: remaining is clamped at 0
ColumnTotals_Clamped(vt, col) ==
  LET found == MapSeq(vt, LAMBDA t :
                 FindAssignment(t.assignments, col.courseName, col.courseGroup.id))
      hit == SelectSeq(found, LAMBDA f : f # <<>>)
      totalLoad == SumSeq(MapSeq(hit, LAMBDA f : f[1].load))
      metadata == SelectSeq(col.courseGroup.columnMetadata,
                            LAMBDA m : m.columnId = col.columnId)
      capacity == IF metadata = <<>> THEN 0 ELSE metadata[1].periodsPerCycle
  IN [key |-> <<col.courseGroup.id, col.courseName>>,
      students |-> SumSeq(MapSeq(hit, LAMBDA f : f[1].students)),
      load |-> totalLoad,
      remaining |-> IF capacity > totalLoad THEN capacity - totalLoad ELSE 0,
      studentCount |-> Len(SelectSeq(hit, LAMBDA f : f[1].students > 0))]

\* the totals of one column over the visible teachers
ColumnTotals(vt, col) ==
  LET found == MapSeq(vt, LAMBDA t :
                 FindAssignment(t.assignments, col.courseName, col.courseGroup.id))
      hit == SelectSeq(found, LAMBDA f : f # <<>>)
      totalStudents == SumSeq(MapSeq(hit, LAMBDA f : f[1].students))
      totalLoad == SumSeq(MapSeq(hit, LAMBDA f : f[1].load))
      metadata == SelectSeq(col.courseGroup.columnMetadata,
                            LAMBDA m : m.columnId = col.columnId)
      capacity == IF metadata = <<>> THEN 0 ELSE metadata[1].periodsPerCycle
  IN [key |-> <<col.courseGroup.id, col.courseName>>,
      students |-> totalStudents,
      load |-> totalLoad,
      remaining |-> IF capacity > 0 THEN capacity - totalLoad ELSE 0,
      studentCount |-> Len(SelectSeq(hit, LAMBDA f : f[1].students > 0))]

\* courseTotals is a Record: a later column with the same key overwrites
courseTotals(vt, groups, collapsedCourseGroups) ==
  LET cols == FlatMapColumns(SelectSeq(groups,
                 LAMBDA g : ~Includes(collapsedCourseGroups, g.id)))
      entries == MapSeq(cols, LAMBDA col : ColumnTotals(vt, col))
      keys == { entries[i].key : i \in 1..Len(entries) }
      last(k) == CHOOSE i \in 1..Len(entries) :
                   /\ entries[i].key = k
                   /\ \A j \in (i + 1)..Len(entries) : entries[j].key # k
  IN [k \in keys |-> entries[last(k)]]

RECURSIVE SumOver(_, _)
SumOver(f, S) ==
  IF S = {} THEN 0
  ELSE LET x == CHOOSE y \in S : TRUE IN f[x] + SumOver(f, S \ {x})

useSummaryCalculations(vt, groups, collapsedCourseGroups) ==
  [totalTeachers |-> Len(vt),
   totalMaxLoad |-> SumSeq(MapSeq(vt, LAMBDA t : t.maxLoad)),
   totalAvailable |-> SumSeq(MapSeq(vt, LAMBDA t : t.availablePeriods)),
   totalPreps |-> SumSeq(MapSeq(vt, LAMBDA t : t.preps)),
   totalStudents |-> SumSeq(MapSeq(vt, LAMBDA t : t.students)),
   courseTotals |-> courseTotals(vt, groups, collapsedCourseGroups)]

summaryTotals ==
  useSummaryCalculations(visibleTeachers(Teachers, state), Groups,
                         state.collapsedCourseGroups)

----------------------------------------------------------------------------
(* Relocation: SchedulerGrid.handleDragEnd *)

\* mutant of DifferentGroup: the group check is missing
DifferentGroup_Missing(dragData, dropData) == FALSE

\* line 111: only allow drops within the same course group
DifferentGroup(dragData, dropData) == dragData.courseGroup # dropData.courseGroup

\* mutant of SameCell: the teacher comparison is inverted
SameCell_Inverted(dragData, dropData) ==
  /\ dragData.teacherId # dropData.teacherId
  /\ dragData.assignment.courseName = dropData.courseName

\* lines 123-126: don't allow dropping on the same cell
SameCell(dragData, dropData) ==
  /\ dragData.teacherId = dropData.teacherId
  /\ dragData.assignment.courseName = dropData.courseName

\* mutant of Rejected: the commented-out max-load check of lines 133-153 is on
Rejected_WithCapacity(teachers, dragData, dropData) ==
  \/ dragData.courseGroup # dropData.courseGroup
  \/ FindTeacher(teachers, dragData.teacherId) = <<>>
  \/ FindTeacher(teachers, dropData.teacherId) = <<>>
  \/ /\ dragData.teacherId = dropData.teacherId
     /\ dragData.assignment.courseName = dropData.courseName
  \/ /\ dragData.teacherId # dropData.teacherId
     /\ LET targetTeacher == FindTeacher(teachers, dropData.teacherId)[1]
            draggedLoad == CountedLoadOf(dragData.assignment)
            targetCurrentLoad == SumSeq(MapSeq(targetTeacher.assignments, CountedLoadOf))
        IN draggedLoad > targetTeacher.maxLoad - targetCurrentLoad

\* the early returns of lines 110-128, in the order of the code; the
\* max-load check of lines 130-153 is commented out in the source
Rejected(teachers, dragData, dropData) ==
  \/ DifferentGroup(dragData, dropData)
  \/ FindTeacher(teachers, dragData.teacherId) = <<>>
  \/ FindTeacher(teachers, dropData.teacherId) = <<>>
  \/ SameCell(dragData, dropData)

\* lines 156-158: sourceTeacher.assignments.filter(a => !(a.courseId === ...))
updatedSourceAssignments(sourceTeacher, dragData) ==
  SelectSeq(sourceTeacher.assignments,
            LAMBDA a : ~(a.courseId = dragData.assignment.courseId))

\* mutant of Renamed: the copy is made without the students figure
Renamed_ResetsStudents(assignment, courseName) ==
  [assignment EXCEPT !.courseName = courseName, !.students = 0]

\* {...dragData.assignment, courseName: dropData.courseName}
Renamed(assignment, courseName) == [assignment EXCEPT !.courseName = courseName]

\* lines 161-187: the onAssignmentUpdate call of an accepted drop
UpdateCall(teachers, dragData, dropData) ==
  LET sourceTeacher == FindTeacher(teachers, dragData.teacherId)[1]
      targetTeacher == FindTeacher(teachers, dropData.teacherId)[1]
      updatedAssignment == Renamed(dragData.assignment, dropData.courseName)
  IN IF dragData.teacherId = dropData.teacherId
     THEN [teacherId |-> sourceTeacher.id,
           assignments |-> Append(updatedSourceAssignments(sourceTeacher, dragData),
                                  updatedAssignment),
           additionalUpdates |-> <<>>]
     ELSE [teacherId |-> sourceTeacher.id,
           assignments |-> updatedSourceAssignments(sourceTeacher, dragData),
           additionalUpdates |->
             << [teacherId |-> targetTeacher.id,
                 assignments |-> Append(targetTeacher.assignments, updatedAssignment)] >>]

\* the onAssignmentUpdate calls handleDragEnd makes for an event (none or one)
handleDragEnd(teachers, event) ==
  IF event.over = <<>> THEN <<>>
  ELSE IF event.active.id = event.over[1].id THEN <<>>
  ELSE IF Rejected(teachers, event.active.data, event.over[1].data) THEN <<>>
  ELSE << UpdateCall(teachers, event.active.data, event.over[1].data) >>

\* the toast calls handleDragEnd makes for an event: line 112 is its only one
Toast(type, title, description) ==
  [type |-> type, title |-> title, description |-> description]

\* mutant of handleDragEndToasts: the same-cell check comes before the
\* group check
handleDragEndToasts_IdentityFirst(teachers, event) ==
  IF event.over = <<>> THEN <<>>
  ELSE IF event.active.id = event.over[1].id THEN <<>>
  ELSE IF SameCell(event.active.data, event.over[1].data) THEN <<>>
  ELSE IF DifferentGroup(event.active.data, event.over[1].data)
       THEN << Toast("error", "Invalid drop",
                     "Cannot drop assignment to a different course group") >>
       ELSE <<>>

\* the toast calls of handleDragEnd, in the order of its checks: the group
\* check of lines 110-114 comes before the same-cell check of lines 122-128
handleDragEndToasts(teachers, event) ==
  IF event.over = <<>> THEN <<>>
  ELSE IF event.active.id = event.over[1].id THEN <<>>
  ELSE IF DifferentGroup(event.active.data, event.over[1].data)
       THEN << Toast("error", "Invalid drop",
                     "Cannot drop assignment to a different course group") >>
       ELSE <<>>

----------------------------------------------------------------------------
(* Home.handleAssignmentUpdate *)

\* the Map built at lines 129-137: a later set for the same id overwrites
UpdatesGet(call, id) ==
  LET adds == SelectSeq(call.additionalUpdates, LAMBDA u : u.teacherId = id) IN
  IF adds # <<>> THEN << adds[Len(adds)].assignments >>
  ELSE IF call.teacherId = id THEN << call.assignments >>
  ELSE <<>>

\* mutant of handleAssignmentUpdate: additionalUpdates is ignored
handleAssignmentUpdate_FirstOnly(d, call) ==
  IF d = <<>> THEN d
  ELSE << [d[1] EXCEPT !.teachers =
             MapSeq(d[1].teachers,
                    LAMBDA teacher :
                      IF teacher.id = call.teacherId
                      THEN enhanceTeacherWithMetrics(
                             [teacher EXCEPT !.assignments = call.assignments])
                      ELSE teacher)] >>

\* lines 128-150: the new value of data (d is data, possibly null)
handleAssignmentUpdate(d, call) ==
  IF d = <<>> THEN d
  ELSE << [d[1] EXCEPT !.teachers =
             MapSeq(d[1].teachers,
                    LAMBDA teacher :
                      LET newAssignments == UpdatesGet(call, teacher.id) IN
                      IF newAssignments # <<>>
                      THEN enhanceTeacherWithMetrics(
                             [teacher EXCEPT !.assignments = newAssignments[1]])
                      ELSE teacher)] >>

RECURSIVE ApplyCalls(_, _)
ApplyCalls(d, calls) ==
  IF calls = <<>> THEN d
  ELSE ApplyCalls(handleAssignmentUpdate(d, Head(calls)), Tail(calls))

----------------------------------------------------------------------------
(* State machine *)

\* the catalog's courses that teachers' assignments refer to
Courses ==
  << [id |-> "c1", group |-> sCCW6], [id |-> "c7", group |-> sCCW7] >>

\* an API request and its response: the route, its id parameter (<<>> =
\* none), its body (<<>> = none), its query flag (force or cascade), the
\* status and errors returned, and the store as it was before the request
Response(seq, op, id, body, flag, status, errors, before) ==
  [seq |-> seq, op |-> op, id |-> id, body |-> body, flag |-> flag,
   status |-> status, errors |-> errors, before |-> before]

\* no API request has been made
NoResponse == Response(0, "none", <<>>, <<>>, FALSE, 0, <<>>, <<>>)

NoFetch == [phase |-> "idle", teachers |-> <<>>, courseGroups |-> <<>>]
Event(op, ev) == [op |-> op, event |-> ev]

\* Home is constructed with data = null, isLoading = true, and its mount
\* effect has called fetchSchedulerData
Init ==
  /\ kvTeachers \in InitialStores
  /\ data = <<>>
  /\ isLoading = TRUE
  /\ error = FALSE
  /\ fetch = [phase |-> "requested", teachers |-> <<>>, courseGroups |-> <<>>]
  /\ patchPending = FALSE
  /\ edits = 0
  /\ state = DEFAULT_STATE
  /\ activeAssignment = <<>>
  /\ active = <<>>
  /\ lastEvent = Event("other", <<>>)
  /\ emitted = <<>>
  /\ toasts = <<>>
  /\ kvCourseGroups = CourseGroups
  /\ kvCourses = Courses
  /\ response = NoResponse
  /\ localStorage = <<>>
  /\ sorting = <<>>

\* fetchSchedulerData up to its await: the page returns the loading view, so
\* SchedulerGrid (with activeAssignment and the DndContext) is unmounted
StartFetch ==
  /\ isLoading' = TRUE
  /\ error' = FALSE
  /\ fetch' = [phase |-> "requested", teachers |-> <<>>, courseGroups |-> <<>>]
  /\ activeAssignment' = <<>>
  /\ active' = <<>>
  /\ sorting' = <<>>

\* GET /api/teachers and GET /api/catalog: getAllTeachers(), getCatalog()
FetchRead ==
  /\ fetch.phase = "requested"
  /\ fetch' = [phase |-> "read", teachers |-> kvTeachers,
               courseGroups |-> kvCourseGroups]
  /\ lastEvent' = Event("other", <<>>)
  /\ emitted' = <<>>
  /\ toasts' = <<>>
  /\ UNCHANGED kvCourseGroups
  /\ UNCHANGED <<kvTeachers, data, isLoading, error, patchPending, edits, state,
                 activeAssignment, active>>
  /\ UNCHANGED <<kvCourses, response>>
  /\ UNCHANGED <<localStorage, sorting>>

\* teachers.map(enhanceTeacherWithMetrics).slice(0, 10)
LoadedTeachers(teachers) ==
  SubSeq(MapSeq(teachers, enhanceTeacherWithMetrics), 1, Min(MaxRows, Len(teachers)))

\* fetchSchedulerData after its await: setData, finally setIsLoading(false).
\* The page now renders SchedulerGrid, which is constructed anew:
\* useLocalStorage reads the stored item and its effect writes it back.
FetchResolve ==
  /\ fetch.phase = "read"
  /\ data' = << [teachers |-> LoadedTeachers(fetch.teachers),
                 courseGroups |-> fetch.courseGroups] >>
  /\ isLoading' = FALSE
  /\ fetch' = NoFetch
  /\ lastEvent' = Event("reload", <<>>)
  /\ emitted' = <<>>
  /\ toasts' = <<>>
  /\ UNCHANGED kvCourseGroups
  /\ UNCHANGED <<kvTeachers, error, patchPending, edits, activeAssignment, active>>
  /\ UNCHANGED <<kvCourses, response>>
  /\ state' = getLocalStorage(localStorage, DEFAULT_STATE)
  /\ localStorage' = setLocalStorage(state')
  /\ UNCHANGED sorting

\* fetchSchedulerData's catch: a request failed
FetchFail ==
  /\ fetch.phase \in {"requested", "read"}
  /\ error' = TRUE
  /\ isLoading' = FALSE
  /\ fetch' = NoFetch
  /\ lastEvent' = Event("other", <<>>)
  /\ emitted' = <<>>
  /\ toasts' = <<>>
  /\ UNCHANGED kvCourseGroups
  /\ UNCHANGED <<kvTeachers, data, patchPending, edits, state, activeAssignment, active>>
  /\ UNCHANGED <<kvCourses, response>>
  /\ UNCHANGED <<localStorage, sorting>>

\* the Retry button of the error view
Retry ==
  /\ error
  /\ ~isLoading
  /\ StartFetch
  /\ lastEvent' = Event("other", <<>>)
  /\ emitted' = <<>>
  /\ toasts' = <<>>
  /\ UNCHANGED kvCourseGroups
  /\ UNCHANGED <<kvTeachers, data, patchPending, edits, state>>
  /\ UNCHANGED <<kvCourses, response>>
  /\ UNCHANGED localStorage

\* CatalogManager onUpdate={fetchSchedulerData}
CatalogManagerUpdate ==
  /\ GridMounted
  /\ active = <<>>
  /\ ~patchPending
  /\ StartFetch
  /\ lastEvent' = Event("other", <<>>)
  /\ emitted' = <<>>
  /\ toasts' = <<>>
  /\ UNCHANGED kvCourseGroups
  /\ UNCHANGED <<kvTeachers, data, patchPending, edits, state>>
  /\ UNCHANGED <<kvCourses, response>>
  /\ UNCHANGED localStorage

\* kv.updateTeacher(id, updates): teachers[index] = {...teachers[index], ...updates}
updateTeacher(teachers, id, updates) ==
  LET index == FindIndex(teachers, LAMBDA t : t.id = id) IN
  IF index = 0 THEN teachers
  ELSE [teachers EXCEPT ![index] = Merge(teachers[index], updates)]

\* handleInlineUpdate up to its await; the PATCH is applied by the server
HandleInlineUpdate(teacherId, value) ==
  /\ GridMounted
  /\ active = <<>>
  /\ ~patchPending
  /\ edits < MaxEdits
  /\ \E t \in Range(visibleTeachers(Teachers, state)) : t.id = teacherId
  /\ value \in 0..MaxLoadLimit
  /\ kvTeachers' = updateTeacher(kvTeachers, teacherId, [maxLoad |-> value])
  /\ patchPending' = TRUE
  /\ edits' = edits + 1
  /\ lastEvent' = Event("other", <<>>)
  /\ emitted' = <<>>
  /\ toasts' = <<>>
  /\ UNCHANGED kvCourseGroups
  /\ UNCHANGED <<data, isLoading, error, fetch, state, activeAssignment, active>>
  /\ UNCHANGED <<kvCourses, response>>
  /\ UNCHANGED <<localStorage, sorting>>

\* handleInlineUpdate after its await: onTeacherUpdate?.()
InlineUpdateResponse ==
  /\ patchPending
  /\ fetch.phase = "idle"
  /\ patchPending' = FALSE
  /\ StartFetch
  /\ lastEvent' = Event("other", <<>>)
  /\ emitted' = <<>>
  /\ toasts' = << Toast("success", "Updated", "Max Load updated successfully") >>
  /\ UNCHANGED kvCourseGroups
  /\ UNCHANGED <<kvTeachers, data, edits, state>>
  /\ UNCHANGED <<kvCourses, response>>
  /\ UNCHANGED localStorage

\* mutant of Toggle: a collapsed entry is never removed
Toggle_AppendOnly(list, x) ==
  IF Includes(list, x) THEN list ELSE Append(list, x)

\* prev.includes(x) ? prev.filter(y => y !== x) : [...prev, x]
Toggle(list, x) ==
  IF Includes(list, x) THEN SelectSeq(list, LAMBDA y : y # x) ELSE Append(list, x)

toggleDivision(division) ==
  /\ GridMounted
  /\ active = <<>>
  /\ division \in Divisions
  /\ state' = [state EXCEPT !.collapsedDivisions = Toggle(@, division)]
  /\ lastEvent' = Event("other", <<>>)
  /\ emitted' = <<>>
  /\ toasts' = <<>>
  /\ UNCHANGED kvCourseGroups
  /\ UNCHANGED <<kvTeachers, data, isLoading, error, fetch, patchPending, edits,
                 activeAssignment, active>>
  /\ UNCHANGED <<kvCourses, response>>
  /\ localStorage' = setLocalStorage(state')
  /\ UNCHANGED sorting

toggleCourseGroup(groupId) ==
  /\ GridMounted
  /\ active = <<>>
  /\ \E g \in Range(Groups) : g.id = groupId
  /\ state' = [state EXCEPT !.collapsedCourseGroups = Toggle(@, groupId)]
  /\ lastEvent' = Event("other", <<>>)
  /\ emitted' = <<>>
  /\ toasts' = <<>>
  /\ UNCHANGED kvCourseGroups
  /\ UNCHANGED <<kvTeachers, data, isLoading, error, fetch, patchPending, edits,
                 activeAssignment, active>>
  /\ UNCHANGED <<kvCourses, response>>
  /\ localStorage' = setLocalStorage(state')
  /\ UNCHANGED sorting

\* DndContext onDragStart: a cell holding an assignment is picked up
handleDragStart(cell) ==
  /\ GridMounted
  /\ active = <<>>
  /\ cell \in RenderedCells
  /\ cell.assignment # <<>>
  /\ active' = << Draggable(cell) >>
  /\ activeAssignment' = << Draggable(cell).data.assignment >>
  /\ lastEvent' = Event("other", <<>>)
  /\ emitted' = <<>>
  /\ toasts' = <<>>
  /\ UNCHANGED kvCourseGroups
  /\ UNCHANGED <<kvTeachers, data, isLoading, error, fetch, patchPending, edits, state>>
  /\ UNCHANGED <<kvCourses, response>>
  /\ UNCHANGED <<localStorage, sorting>>

\* DndContext onDragEnd: dropped over a droppable cell or over nothing
DragEnd(over) ==
  /\ GridMounted
  /\ active # <<>>
  /\ LET event == [active |-> active[1], over |-> over]
         calls == handleDragEnd(Teachers, event)
     IN /\ activeAssignment' = <<>>
        /\ data' = ApplyCalls(data, calls)
        /\ emitted' = calls
        /\ toasts' = handleDragEndToasts(Teachers, event)
        /\ lastEvent' = Event("dragEnd", <<event>>)
  /\ active' = <<>>
  /\ UNCHANGED kvCourseGroups
  /\ UNCHANGED <<kvTeachers, isLoading, error, fetch, patchPending, edits, state>>
  /\ UNCHANGED <<kvCourses, response>>
  /\ UNCHANGED <<localStorage, sorting>>

\* the gesture is cancelled (Escape): DndContext calls onDragCancel, for
\* which SchedulerGrid passes no handler
DragCancel ==
  /\ GridMounted
  /\ active # <<>>
  /\ active' = <<>>
  /\ lastEvent' = Event("other", <<>>)
  /\ emitted' = <<>>
  /\ toasts' = <<>>
  /\ UNCHANGED kvCourseGroups
  /\ UNCHANGED <<kvTeachers, data, isLoading, error, fetch, patchPending, edits, state,
                 activeAssignment>>
  /\ UNCHANGED <<kvCourses, response>>
  /\ UNCHANGED <<localStorage, sorting>>

\* kv.updateCourseGroup(id, updates): groups[index] = {...groups[index], ...updates}
updateCourseGroup(groups, id, updates) ==
  LET index == FindIndex(groups, LAMBDA g : g.id = id) IN
  IF index = 0 THEN groups
  ELSE [groups EXCEPT ![index] = Merge(groups[index], updates)]

\* CatalogManager.handleUpdateGroup: the group form is saved with another
\* order; the store is updated, then onUpdate (fetchSchedulerData) runs
handleUpdateGroup(groupId, order) ==
  /\ GridMounted
  /\ active = <<>>
  /\ ~patchPending
  /\ \E g \in Range(kvCourseGroups) : g.id = groupId
  /\ order \in Nat
  /\ kvCourseGroups' = updateCourseGroup(kvCourseGroups, groupId, [order |-> order])
  /\ StartFetch
  /\ lastEvent' = Event("other", <<>>)
  /\ emitted' = <<>>
  /\ toasts' = << Toast("success", "Course group updated", "") >>
  /\ UNCHANGED <<kvTeachers, data, patchPending, edits, state>>
  /\ UNCHANGED <<kvCourses, response>>
  /\ UNCHANGED localStorage

Next ==
  \/ FetchRead
  \/ FetchResolve
  \/ FetchFail
  \/ Retry
  \/ CatalogManagerUpdate
  \/ \E t \in {"t1", "t2"}, v \in 0..MaxEditValue : HandleInlineUpdate(t, v)
  \/ InlineUpdateResponse
  \/ \E d \in Divisions : toggleDivision(d)
  \/ \E g \in {sCCW6, sCCW7} : toggleCourseGroup(g)
  \/ \E cell \in RenderedCells : handleDragStart(cell)
  \/ \E over \in {<<>>} \cup { << Droppable(c) >> : c \in RenderedCells } : DragEnd(over)
  \/ DragCancel

Spec == Init /\ [][Next]_vars

\* the grid's view and the catalog: loading, collapsing, and editing a
\* group's order in the CatalogManager
NextView ==
  \/ FetchRead
  \/ FetchResolve
  \/ FetchFail
  \/ Retry
  \/ \E g \in {sCCW6, sCCW7}, o \in 0..MaxOrder : handleUpdateGroup(g, o)
  \/ \E d \in Divisions : toggleDivision(d)
  \/ \E g \in {sCCW6, sCCW7} : toggleCourseGroup(g)

SpecView == Init /\ [][NextView]_vars

----------------------------------------------------------------------------
(* Properties of the relocation *)

Count(s, x) == Len(SelectSeq(s, LAMBDA y : y = x))
AssignmentsIn(teachers, id) == FindTeacher(teachers, id)[1].assignments
ConsumedLoad(assignments) == SumSeq(MapSeq(assignments, CountedLoadOf))

\* total load over the visible rows and columns, as aggregated
TotalLoadOf(totals) ==
  SumOver([k \in DOMAIN totals.courseTotals |-> totals.courseTotals[k].load],
          DOMAIN totals.courseTotals)
TotalVisibleLoad(teachers, groups, st) ==
  TotalLoadOf(useSummaryCalculations(visibleTeachers(teachers, st), groups,
                                     st.collapsedCourseGroups))

\* the drag-end event recorded by the last step, when it was one with a target
IsDrop(ev) == ev.op = "dragEnd" /\ ev.event[1].over # <<>>
DragDataOf(ev) == ev.event[1].active.data
DropDataOf(ev) == ev.event[1].over[1].data
IsCrossGroupDrop(ev) ==
  IsDrop(ev) /\ DropDataOf(ev).courseGroup # DragDataOf(ev).assignment.courseGroup
IsSameCellDrop(ev) ==
  /\ IsDrop(ev)
  /\ DropDataOf(ev).teacherId = DragDataOf(ev).teacherId
  /\ DropDataOf(ev).courseName = DragDataOf(ev).assignment.courseName
IsAcceptableDrop(ev) == IsDrop(ev) /\ ~IsCrossGroupDrop(ev) /\ ~IsSameCellDrop(ev)
IsCrossTeacherCall(em) == em # <<>> /\ em[1].additionalUpdates # <<>>
IsSameTeacherCall(em) == em # <<>> /\ em[1].additionalUpdates = <<>>

\* C1: an accepted relocation leaves the aggregated total load over the
\* visible rows and columns unchanged (for empty and occupied destinations)
C1_LoadConserved ==
  [][(lastEvent'.op = "dragEnd" /\ emitted' # <<>>)
       => TotalVisibleLoad(Teachers', Groups', state')
            = TotalVisibleLoad(Teachers, Groups, state)]_vars

\* C2: a drop on a column of another group than the dragged assignment's
\* calls onAssignmentUpdate never and leaves every teacher's list unchanged
C2_CrossGroupRejected ==
  [][IsCrossGroupDrop(lastEvent') => (emitted' = <<>> /\ data' = data)]_vars

C2_Witness == IsCrossGroupDrop(lastEvent) /\ emitted = <<>>

\* C3: a drop on the (teacher, course name) the assignment was dragged from
\* emits no update and leaves all rows unchanged
C3_SameCellRejected ==
  [][IsSameCellDrop(lastEvent') => (emitted' = <<>> /\ data' = data)]_vars

C3_Witness ==
  IsSameCellDrop(lastEvent) /\ ~IsCrossGroupDrop(lastEvent) /\ emitted = <<>>

C5_CrossTeacherLists ==
  [][(lastEvent'.op = "dragEnd" /\ IsCrossTeacherCall(emitted'))
       => LET src == emitted'[1].teacherId
              dst == emitted'[1].additionalUpdates[1].teacherId
              moved == DragDataOf(lastEvent').assignment
              oldSrc == AssignmentsIn(Teachers, src)
              newSrc == AssignmentsIn(Teachers', src)
              oldDst == AssignmentsIn(Teachers, dst)
              newDst == AssignmentsIn(Teachers', dst)
          IN /\ Len(newSrc) = Len(oldSrc) - 1
             /\ \A x \in Range(oldSrc) :
                  Count(newSrc, x) = Count(oldSrc, x) - (IF x = moved THEN 1 ELSE 0)
             /\ Len(newDst) = Len(oldDst) + 1
             /\ SubSeq(newDst, 1, Len(oldDst)) = oldDst]_vars

\* C6: an accepted relocation within one teacher keeps the list length,
\* every other assignment and the teacher's consumed (non-CPT) load
C6_SameTeacherLists ==
  [][(lastEvent'.op = "dragEnd" /\ IsSameTeacherCall(emitted'))
       => LET id == emitted'[1].teacherId
              moved == DragDataOf(lastEvent').assignment
              renamed == Renamed(moved, DropDataOf(lastEvent').courseName)
              old == AssignmentsIn(Teachers, id)
              new == AssignmentsIn(Teachers', id)
          IN /\ Len(new) = Len(old)
             /\ \A x \in Range(old) \cup Range(new) :
                  Count(new, x) + (IF x = moved THEN 1 ELSE 0)
                    = Count(old, x) + (IF x = renamed THEN 1 ELSE 0)
             /\ ConsumedLoad(new) = ConsumedLoad(old)]_vars

\* C7: a cross-teacher relocation is applied in one step: before it neither
\* replacement list is in the grid, after it both are
C7_Atomic ==
  [][IsCrossTeacherCall(emitted')
       => LET call == emitted'[1]
              add == call.additionalUpdates[1]
          IN /\ AssignmentsIn(Teachers', call.teacherId) = call.assignments
             /\ AssignmentsIn(Teachers', add.teacherId) = add.assignments
             /\ AssignmentsIn(Teachers, call.teacherId) # call.assignments
             /\ AssignmentsIn(Teachers, add.teacherId) # add.assignments]_vars

C7_Witness == lastEvent.op = "dragEnd" /\ IsCrossTeacherCall(emitted)

C9_WrittenBackBeforeRead ==
  (fetch.phase = "read" /\ data # <<>>)
    => \A t \in Range(Teachers) :
         AssignmentsIn(fetch.teachers, t.id) = t.assignments

\* C10: activeAssignment is set only while a drag is armed
C10_ReturnsToIdle == (active = <<>>) => (activeAssignment = <<>>)

----------------------------------------------------------------------------
(* Properties of the view *)

\* the indices of the rows whose division is not collapsed
KeptRows(teachers, st) ==
  { i \in 1..Len(teachers) :
      \A j \in 1..Len(st.collapsedDivisions) :
        st.collapsedDivisions[j] # teachers[i].division }
\* the k-th smallest member of a set of indices
NthOf(K, k) == CHOOSE i \in K : Cardinality({ j \in K : j <= i }) = k

\* C11: the visible rows are the rows whose division is not collapsed, all
\* of them and in the order of the full row sequence
C11_VisibleRows ==
  LET v == visibleTeachers(Teachers, state)
      K == KeptRows(Teachers, state)
  IN /\ Len(v) = Cardinality(K)
     /\ \A k \in 1..Len(v) : v[k] = Teachers[NthOf(K, k)]

C11_Witness ==
  /\ GridMounted
  /\ state.collapsedDivisions # <<>>
  /\ Len(visibleTeachers(Teachers, state)) >= 1
  /\ Len(visibleTeachers(Teachers, state)) < Len(Teachers)

\* the position of a column id in its group's column list
ColumnIndex(group, columnId) ==
  CHOOSE i \in 1..Len(group.columns) : group.columns[i] = columnId

\* C12: the visible columns are the columns of the groups that are not
\* collapsed, no other, ordered by the group's order value and then by the
\* position in the group's column list
C12_VisibleColumns ==
  GridMounted =>
    LET cols == courseColumns(Groups, state)
        shown == { <<cols[i].courseGroup.id, cols[i].columnId>> : i \in 1..Len(cols) }
        wanted == UNION { { <<g.id, c>> : c \in Range(g.columns) } :
                            g \in { h \in Range(Groups) :
                                      ~Includes(state.collapsedCourseGroups, h.id) } }
    IN /\ shown = wanted
       /\ Len(cols) = Cardinality(wanted)
       /\ \A i, j \in 1..Len(cols) :
            i < j =>
              IF cols[i].courseGroup.id = cols[j].courseGroup.id
              THEN ColumnIndex(cols[i].courseGroup, cols[i].columnId)
                     < ColumnIndex(cols[j].courseGroup, cols[j].columnId)
              ELSE cols[i].courseGroup.order <= cols[j].courseGroup.order

\* a step that collapses or expands exactly division d, the rows unchanged
TogglesDivision(d) ==
  /\ data' = data
  /\ Includes(state'.collapsedDivisions, d) # Includes(state.collapsedDivisions, d)
  /\ \A e \in Divisions \ {d} :
       Includes(state'.collapsedDivisions, e) = Includes(state.collapsedDivisions, e)
\* a step that collapses or expands exactly group g, the catalog unchanged
TogglesCourseGroup(g) ==
  /\ data' = data
  /\ Includes(state'.collapsedCourseGroups, g) # Includes(state.collapsedCourseGroups, g)
  /\ \A e \in {sCCW6, sCCW7} \ {g} :
       Includes(state'.collapsedCourseGroups, e) = Includes(state.collapsedCourseGroups, e)

\* C13: after a toggle of a division, the next toggle of the same division
\* shows the rows that were visible before the first; the same for a course
\* group and the visible columns
C13_ToggleRoundTrip ==
  [][/\ \A d \in Divisions :
          TogglesDivision(d) =>
            visibleTeachers(Teachers',
                [state' EXCEPT !.collapsedDivisions = Toggle(@, d)])
              = visibleTeachers(Teachers, state)
     /\ \A g \in {sCCW6, sCCW7} :
          TogglesCourseGroup(g) =>
            courseColumns(Groups',
                [state' EXCEPT !.collapsedCourseGroups = Toggle(@, g)])
              = courseColumns(Groups, state)]_vars

C13_Witness ==
  /\ GridMounted
  /\ state.collapsedDivisions = << "MS" >>
  /\ state.collapsedCourseGroups = << sCCW7 >>
  /\ Len(visibleTeachers(Teachers, state)) >= 1

----------------------------------------------------------------------------
(* Properties of the aggregation *)

\* the assignments of a row that belong to a column
MatchingAssignments(teacher, col) ==
  SelectSeq(teacher.assignments,
            LAMBDA a : a.courseGroup = col.courseGroup.id /\ a.courseName = col.courseName)
TotalsOfColumn(col) == summaryTotals.courseTotals[<<col.courseGroup.id, col.courseName>>]

\* C14: for every visible column, the aggregated load and students are the
\* sums over every matching assignment of every visible row
C14_ColumnSums ==
  GridMounted =>
    \A col \in Range(courseColumns(Groups, state)) :
      LET vt == visibleTeachers(Teachers, state)
          loads == MapSeq(vt, LAMBDA t :
                     SumSeq(MapSeq(MatchingAssignments(t, col), LAMBDA a : a.load)))
          students == MapSeq(vt, LAMBDA t :
                        SumSeq(MapSeq(MatchingAssignments(t, col), LAMBDA a : a.students)))
      IN /\ TotalsOfColumn(col).load = SumSeq(loads)
         /\ TotalsOfColumn(col).students = SumSeq(students)

C16_GlobalTotals ==
  GridMounted =>
    LET vt == visibleTeachers(Teachers, state)
        nonCPT == MapSeq(vt, LAMBDA t :
                    SumSeq(MapSeq(SelectSeq(t.assignments, LAMBDA a : ~a.isCPT),
                                  LAMBDA a : a.load)))
        totals == summaryTotals
    IN /\ totals.totalTeachers = Len(vt)
       /\ totals.totalMaxLoad = SumSeq(MapSeq(vt, LAMBDA t : t.maxLoad))
       /\ totals.totalAvailable = totals.totalMaxLoad - SumSeq(nonCPT)

C16_Witness ==
  /\ GridMounted
  /\ IsCrossTeacherCall(emitted)
  /\ \E t \in Range(visibleTeachers(Teachers, state)) :
       /\ t.id = emitted[1].additionalUpdates[1].teacherId
       /\ \E a \in Range(t.assignments) : a.isCPT /\ a.load > 0
       /\ \E a \in Range(t.assignments) : ~a.isCPT /\ a.load > 0

----------------------------------------------------------------------------
(* Properties of the column labels *)

sE == << "E" >>
s6 == << "6" >>
sTOK == << "T", "O", "K" >>
\* "OTHER_SUBJECTS"
sOTHER_SUBJECTS ==
  << "O", "T", "H", "E", "R" >> \o sUS \o << "S", "U", "B", "J", "E", "C", "T", "S" >>
\* base(middle)suffix
Parenthesized(base, middle, suffix) ==
  base \o << "(" >> \o middle \o << ")" >> \o suffix

\* C19: the label of column "CCW6_CCW_E_6" of group "CCW6" is "CCW(E)6", the
\* label of "OTHER_SUBJECTS_TOK" of group "OTHER_SUBJECTS" is "TOK", and the
\* tokens [X, E, 6] that follow the group id give X(E)6
C19_ColumnLabels ==
  GridMounted =>
    /\ \A col \in Range(courseColumns(Groups, state)) :
         (col.columnId = colCCWE6 /\ col.courseGroup.id = sCCW6)
           => col.courseName = Parenthesized(sCCW, sE, s6)
    /\ parseCourseNameFromColumnId(sOTHER_SUBJECTS \o sUS \o sTOK, sOTHER_SUBJECTS) = sTOK
    /\ \A g \in {sCCW6, sCCW7, sOTHER_SUBJECTS}, X \in {sCCW, sTOK} :
         parseCourseNameFromColumnId(g \o sUS \o X \o sUS \o sE \o sUS \o s6, g)
           = Parenthesized(X, sE, s6)

----------------------------------------------------------------------------
(* Properties of the rejections *)

\* C20: a drop that is rejected as a cross-group move or because it is on
\* the cell the assignment came from shows an error notification that
\* carries a reason, and leaves the grid ready for the next drag
C20_RejectionsSurfaced ==
  (IsCrossGroupDrop(lastEvent) \/ IsSameCellDrop(lastEvent))
    => /\ \E i \in 1..Len(toasts) :
            toasts[i].type = "error" /\ toasts[i].description # ""
       /\ active = <<>>

----------------------------------------------------------------------------
(* Cells of the grid *)

\* the assignments of a row that belong to the cell (courseGroup, courseName)
AssignmentsOfCell(teacher, groupId, courseName) ==
  SelectSeq(teacher.assignments,
            LAMBDA a : a.courseGroup = groupId /\ a.courseName = courseName)

\* C30: cell uniqueness.  The stored rows hold at most one assignment per
\* (teacher, courseGroup, courseName); after any sequence of accepted
\* relocations every cell of every row still holds at most one assignment.
C30_CellUniqueness ==
  \A i \in 1..Len(Teachers) :
    \A j \in 1..Len(Teachers[i].assignments) :
      LET a == Teachers[i].assignments[j] IN
      Len(AssignmentsOfCell(Teachers[i], a.courseGroup, a.courseName)) <= 1

----------------------------------------------------------------------------
(* Sessions and the preference store *)

\* threshold values typed into the input are drawn from 0..MaxThreshold
MaxThreshold == 2

\* values of the table's SortingState that onSortingChange can hand over
SortingStates ==
  { <<>>, << [id |-> "name", desc |-> FALSE] >>, << [id |-> "name", desc |-> TRUE] >> }

\* items the preference store can hold when a session starts
StoredItems ==
  { <<>>, << Unparsable >>,
    << JSONstringify([DEFAULT_STATE EXCEPT !.collapsedDivisions = <<"HS">>,
                                           !.prepsThreshold = 1]) >> }

\* useReactTable onSortingChange: setSorting
setSorting(next) ==
  /\ GridMounted
  /\ active = <<>>
  /\ next \in SortingStates
  /\ sorting' = next
  /\ lastEvent' = Event("other", <<>>)
  /\ emitted' = <<>>
  /\ toasts' = <<>>
  /\ UNCHANGED <<kvTeachers, kvCourseGroups, kvCourses, data, isLoading, error,
                 fetch, patchPending, edits, state, activeAssignment, active,
                 response, localStorage>>

\* parseInt(e.target.value) || 3; typed is <<>> for text that is no number
ParsedThreshold(typed) ==
  IF typed = <<>> THEN 3 ELSE IF typed[1] = 0 THEN 3 ELSE typed[1]

\* the threshold input's onChange: setPrepsThreshold(parseInt(...) || 3),
\* then useLocalStorage's effect stores the new state
setPrepsThreshold(typed) ==
  /\ GridMounted
  /\ active = <<>>
  /\ state' = [state EXCEPT !.prepsThreshold = ParsedThreshold(typed)]
  /\ localStorage' = setLocalStorage(state')
  /\ lastEvent' = Event("other", <<>>)
  /\ emitted' = <<>>
  /\ toasts' = <<>>
  /\ UNCHANGED <<kvTeachers, kvCourseGroups, kvCourses, data, isLoading, error,
                 fetch, patchPending, edits, activeAssignment, active, response,
                 sorting>>

\* the page is opened again: Home and SchedulerGrid are constructed anew
\* (useState initial values, the mount effect calls fetchSchedulerData);
\* the backing store and the preference store are what the last session
\* left
NewSession ==
  /\ data' = <<>>
  /\ isLoading' = TRUE
  /\ error' = FALSE
  /\ fetch' = [phase |-> "requested", teachers |-> <<>>, courseGroups |-> <<>>]
  /\ patchPending' = FALSE
  /\ activeAssignment' = <<>>
  /\ active' = <<>>
  /\ sorting' = <<>>
  /\ state' = getLocalStorage(localStorage, DEFAULT_STATE)
  /\ lastEvent' = Event("newSession", <<>>)
  /\ emitted' = <<>>
  /\ toasts' = <<>>
  /\ UNCHANGED <<kvTeachers, kvCourseGroups, kvCourses, edits, response,
                 localStorage>>

InitSession ==
  /\ kvTeachers \in InitialStores
  /\ kvCourseGroups = CourseGroups
  /\ kvCourses = Courses
  /\ localStorage \in StoredItems
  /\ data = <<>>
  /\ isLoading = TRUE
  /\ error = FALSE
  /\ fetch = [phase |-> "requested", teachers |-> <<>>, courseGroups |-> <<>>]
  /\ patchPending = FALSE
  /\ edits = 0
  /\ state = getLocalStorage(localStorage, DEFAULT_STATE)
  /\ activeAssignment = <<>>
  /\ active = <<>>
  /\ sorting = <<>>
  /\ lastEvent = Event("newSession", <<>>)
  /\ emitted = <<>>
  /\ toasts = <<>>
  /\ response = NoResponse

NextSession ==
  \/ FetchRead
  \/ FetchResolve
  \/ \E d \in Divisions : toggleDivision(d)
  \/ \E g \in {sCCW6, sCCW7} : toggleCourseGroup(g)
  \/ \E next \in SortingStates : setSorting(next)
  \/ \E typed \in {<<>>} \cup { <<n>> : n \in 0..MaxThreshold } : setPrepsThreshold(typed)
  \/ NewSession

SpecSession == InitSession /\ [][NextSession]_vars

\* C21: view-state round trip across sessions.  Whatever the collapsed
\* group set, the collapsed division set, the active sort column and the
\* alert threshold are when a session ends, the session started afterwards
\* has exactly those values.
C21_ViewStateRoundTrip ==
  [][(GridMounted /\ lastEvent'.op = "newSession")
       => /\ state'.collapsedCourseGroups = state.collapsedCourseGroups
          /\ state'.collapsedDivisions = state.collapsedDivisions
          /\ state'.prepsThreshold = state.prepsThreshold
          /\ sorting' = sorting]_vars

----------------------------------------------------------------------------
(* The teachers API: lib/api-validation, app/api/teachers *)

\* API requests made in one behaviour
MaxRequests == 3

UpperCase == << "A", "B", "C", "N", "O" >>
LowerCase == << "a", "b", "c", "n", "o" >>

\* String.prototype.toLowerCase over the letters that occur in names
toLowerCase(str) ==
  [i \in 1..Len(str) |->
     IF \E k \in 1..Len(UpperCase) : UpperCase[k] = str[i]
     THEN LowerCase[CHOOSE k \in 1..Len(UpperCase) : UpperCase[k] = str[i]]
     ELSE str[i]]

RECURSIVE trimStart(_)
trimStart(str) ==
  IF str # <<>> /\ Head(str) = " " THEN trimStart(Tail(str)) ELSE str

RECURSIVE trimEnd(_)
trimEnd(str) ==
  IF str # <<>> /\ str[Len(str)] = " " THEN trimEnd(SubSeq(str, 1, Len(str) - 1))
  ELSE str

\* String.prototype.trim
trim(str) == trimEnd(trimStart(str))

\* {field, message, type}: the message is left out; type is <<>> when the
\* code sets none; index is the position in assignments[index] (<<>> = none)
ValidationError(field, index, type) ==
  [field |-> field, index |-> index, type |-> type]

\* the forEach of lines 48-69, from position index on
RECURSIVE AssignmentErrors(_, _)
AssignmentErrors(assignments, index) ==
  IF index >= Len(assignments) THEN <<>>
  ELSE LET assignment == assignments[index + 1] IN
       (IF assignment.load < 0
        THEN << ValidationError("assignments[].load", <<index>>, <<>>) >> ELSE <<>>)
       \o (IF assignment.courseId = ""
           THEN << ValidationError("assignments[].courseId", <<index>>, <<>>) >> ELSE <<>>)
       \o (IF assignment.courseGroup = <<>>
           THEN << ValidationError("assignments[].courseGroup", <<index>>, <<>>) >> ELSE <<>>)
       \o AssignmentErrors(assignments, index + 1)

\* validateTeacher(teacher, excludeId) against the stored teachers;
\* excludeId is <<>> for null
validateTeacher(teacher, excludeId, teachers) ==
  (IF ~Has(teacher, "name") THEN << ValidationError("name", <<>>, <<>>) >>
   ELSE IF trim(teacher.name) = <<>> THEN << ValidationError("name", <<>>, <<>>) >>
   ELSE <<>>)
  \o (IF ~Has(teacher, "division") THEN << ValidationError("division", <<>>, <<>>) >>
      ELSE IF teacher.division \notin {"MS", "HS"}
           THEN << ValidationError("division", <<>>, <<>>) >>
      ELSE <<>>)
  \o (IF ~Has(teacher, "maxLoad") THEN << ValidationError("maxLoad", <<>>, <<>>) >>
      ELSE IF teacher.maxLoad < 0 THEN << ValidationError("maxLoad", <<>>, <<>>) >>
      ELSE IF teacher.maxLoad > 40 THEN << ValidationError("maxLoad", <<>>, <<>>) >>
      ELSE <<>>)
  \o (IF Has(teacher, "preps")
      THEN IF teacher.preps < 0 THEN << ValidationError("preps", <<>>, <<>>) >> ELSE <<>>
      ELSE <<>>)
  \o (IF Has(teacher, "students")
      THEN IF teacher.students < 0 THEN << ValidationError("students", <<>>, <<>>) >>
           ELSE <<>>
      ELSE <<>>)
  \o (IF Has(teacher, "assignments") THEN AssignmentErrors(teacher.assignments, 0)
      ELSE <<>>)
  \o (IF ~Has(teacher, "name") THEN <<>>
      ELSE IF teacher.name = <<>> THEN <<>>
      ELSE IF \E t \in Range(teachers) :
                /\ << t.id >> # excludeId
                /\ toLowerCase(t.name) = toLowerCase(teacher.name)
           THEN << ValidationError("name", <<>>, <<"warning">>) >>
           ELSE <<>>)

\* kv.getTeacher(id): <<>> for null
getTeacher(teachers, id) ==
  LET index == FindIndex(teachers, LAMBDA t : t.id = id) IN
  IF index = 0 THEN <<>> ELSE << teachers[index] >>

\* kv.createTeacher(teacher)
createTeacher(teachers, teacher) == Append(teachers, teacher)

\* kv.deleteTeacher(id)
deleteTeacher(teachers, id) == SelectSeq(teachers, LAMBDA t : t.id # id)

\* the result of a route: the status, the errors, the JSON returned (<<>> =
\* none) and the stored teachers afterwards
Result(status, errors, json, teachers) ==
  [status |-> status, errors |-> errors, json |-> json, teachers |-> teachers]

\* POST /api/teachers; newId is the id generated when the body has none;
\* meta (notes and timestamps) is left out
POST_teachers(teachers, body, newId) ==
  LET errors == validateTeacher(body, <<>>, teachers) IN
  IF Len(errors) > 0 THEN Result(400, errors, <<>>, teachers)
  ELSE LET teacher == Merge(body, [id |-> IF Has(body, "id") THEN body.id ELSE newId])
       IN Result(201, <<>>, << teacher >>, createTeacher(teachers, teacher))

\* PATCH /api/teachers/[id]
PATCH_teachers(teachers, id, body) ==
  LET teacher == getTeacher(teachers, id) IN
  IF teacher = <<>> THEN Result(404, <<>>, <<>>, teachers)
  ELSE LET updatedTeacher == Merge(teacher[1], body)
           errors == validateTeacher(updatedTeacher, << id >>, teachers)
       IN IF Len(errors) > 0 THEN Result(400, errors, <<>>, teachers)
          ELSE LET updated == updateTeacher(teachers, id, body)
               IN Result(200, <<>>, getTeacher(updated, id), updated)

\* DELETE /api/teachers/[id]
DELETE_teachers(teachers, id) ==
  LET filtered == deleteTeacher(teachers, id) IN
  IF Len(filtered) = Len(teachers) THEN Result(404, <<>>, <<>>, teachers)
  ELSE Result(200, <<>>, <<>>, filtered)

\* ids generated for new records, one per request
NewIds == << "n1", "n2", "n3", "n4", "n5" >>

\* the stores as a request finds them
Stores == [teachers |-> kvTeachers, courseGroups |-> kvCourseGroups,
           courses |-> kvCourses]

PageUnchanged ==
  UNCHANGED <<data, isLoading, error, fetch, patchPending, edits, state,
              activeAssignment, active, lastEvent, emitted, toasts,
              localStorage, sorting>>

sCy == << "C", "y" >>
sANN == << "A", "N", "N" >>
sbob == << "b", "o", "b" >>

\* request bodies of POST /api/teachers: load 3 over maxLoad 2; load equal
\* to maxLoad plus a CPT assignment; the name of a stored teacher in
\* another case; a blank name
PostTeacherBodies ==
  { [name |-> sCy, division |-> "MS", maxLoad |-> 2,
     assignments |-> << Asg("c1", sCCW6, sCCW6, 3, FALSE, 0) >>],
    [name |-> sCy, division |-> "HS", maxLoad |-> 3,
     assignments |-> << Asg("c1", sCCW6, sCCW6, 3, FALSE, 0),
                        Asg("c7", sCCW7, sCCW7, 4, TRUE, 0) >>],
    [name |-> sANN, division |-> "MS", maxLoad |-> 4, assignments |-> <<>>],
    [name |-> << " " >>, division |-> "MS", maxLoad |-> 4, assignments |-> <<>>] }

\* request bodies of PATCH /api/teachers/[id]
PatchTeacherBodies ==
  { [maxLoad |-> 1], [maxLoad |-> 41], [name |-> sbob],
    [assignments |-> << Asg("c1", sCCW6, sCCW6, 4, FALSE, 0),
                        Asg("c7", sCCW7, sCCW7, 2, TRUE, 0) >>] }

PostTeacher(body) ==
  /\ response.seq < MaxRequests
  /\ LET result == POST_teachers(kvTeachers, body, NewIds[response.seq + 1]) IN
     /\ kvTeachers' = result.teachers
     /\ response' = Response(response.seq + 1, "POST /api/teachers", <<>>, << body >>,
                             FALSE, result.status, result.errors, Stores)
  /\ UNCHANGED <<kvCourseGroups, kvCourses>>
  /\ PageUnchanged

PatchTeacher(id, body) ==
  /\ response.seq < MaxRequests
  /\ LET result == PATCH_teachers(kvTeachers, id, body) IN
     /\ kvTeachers' = result.teachers
     /\ response' = Response(response.seq + 1, "PATCH /api/teachers/[id]", << id >>,
                             << body >>, FALSE, result.status, result.errors, Stores)
  /\ UNCHANGED <<kvCourseGroups, kvCourses>>
  /\ PageUnchanged

DeleteTeacher(id) ==
  /\ response.seq < MaxRequests
  /\ LET result == DELETE_teachers(kvTeachers, id) IN
     /\ kvTeachers' = result.teachers
     /\ response' = Response(response.seq + 1, "DELETE /api/teachers/[id]", << id >>,
                             <<>>, FALSE, result.status, result.errors, Stores)
  /\ UNCHANGED <<kvCourseGroups, kvCourses>>
  /\ PageUnchanged

NextTeachersApi ==
  \/ \E body \in PostTeacherBodies : PostTeacher(body)
  \/ \E id \in {"t1", "t2", "n1"}, body \in PatchTeacherBodies : PatchTeacher(id, body)
  \/ \E id \in {"t1", "t2", "n1"} : DeleteTeacher(id)

SpecTeachersApi == Init /\ [][NextTeachersApi]_vars

\* the teacher a create or update request asks to store: the body of a
\* POST, the stored teacher merged with the body of a PATCH (<<>> when the
\* request is neither or the teacher does not exist)
Candidate ==
  IF response.op = "POST /api/teachers" THEN response.body
  ELSE IF response.op = "PATCH /api/teachers/[id]"
       THEN LET stored == getTeacher(response.before.teachers, response.id[1]) IN
            IF stored = <<>> THEN <<>> ELSE << Merge(stored[1], response.body[1]) >>
  ELSE <<>>

\* the sum of load over the non-CPT assignments
NonCPTLoad(teacher) ==
  SumSeq(MapSeq(SelectSeq(teacher.assignments, LAMBDA a : ~a.isCPT), LAMBDA a : a.load))

\* the other teachers a create or update is compared with
OtherTeachers ==
  IF response.id = <<>> THEN Range(response.before.teachers)
  ELSE { t \in Range(response.before.teachers) : t.id # response.id[1] }

HasDuplicateName(teacher) ==
  \E t \in OtherTeachers : toLowerCase(t.name) = toLowerCase(teacher.name)

\* every field of the teacher is valid by the documented rules
FieldsValid(teacher) ==
  /\ trim(teacher.name) # <<>>
  /\ teacher.division \in {"MS", "HS"}
  /\ teacher.maxLoad \in 0..40
  /\ \A a \in Range(teacher.assignments) :
       a.load >= 0 /\ a.courseId # "" /\ a.courseGroup # <<>>
  /\ NonCPTLoad(teacher) <= teacher.maxLoad

Accepted == response.status \in {200, 201}

\* the candidate is what the store holds for it after the request
CandidateStored ==
  \E t \in Range(kvTeachers) :
    \A f \in DOMAIN Candidate[1] : Has(t, f) /\ t[f] = Candidate[1][f]

\* C22: a create or update whose non-CPT load exceeds maxLoad is rejected
\* with a validation error on field 'assignments' and the stored teachers
\* stay as they were; a teacher whose non-CPT load equals maxLoad and who
\* also has CPT assignments is accepted.
C22_LoadChecked ==
  Candidate # <<>> =>
    LET teacher == Candidate[1] IN
    /\ NonCPTLoad(teacher) > teacher.maxLoad
          => /\ response.status = 400
             /\ \E e \in Range(response.errors) : e.field = "assignments"
             /\ kvTeachers = response.before.teachers
    /\ (/\ FieldsValid(teacher)
        /\ ~HasDuplicateName(teacher)
        /\ NonCPTLoad(teacher) = teacher.maxLoad
        /\ \E a \in Range(teacher.assignments) : a.isCPT)
          => Accepted /\ CandidateStored

\* C27: a duplicate teacher name is a warning that does not block.  A
\* create or update whose name equals, ignoring case, the name of another
\* stored teacher, and whose other fields are valid, succeeds and the
\* teacher is stored.
C27_DuplicateNameAccepted ==
  Candidate # <<>> =>
    LET teacher == Candidate[1] IN
    (FieldsValid(teacher) /\ HasDuplicateName(teacher))
      => Accepted /\ CandidateStored

----------------------------------------------------------------------------
(* The catalog API: app/api/catalog/courseGroups, app/api/catalog/courses *)

HexDigits ==
  { "0", "1", "2", "3", "4", "5", "6", "7", "8", "9",
    "A", "B", "C", "D", "E", "F", "a", "b", "c", "d", "e", "f" }

\* /^#[0-9A-Fa-f]{6}$/.test(color)
IsHexColor(color) ==
  /\ Len(color) = 7
  /\ color[1] = "#"
  /\ \A i \in 2..7 : color[i] \in HexDigits

\* "#FDB777"
sOrange == << "#", "F", "D", "B", "7", "7", "7" >>
\* "red"
sRed == << "r", "e", "d" >>

\* group.isSystem, an optional field
IsSystem(group) == IF Has(group, "isSystem") THEN group.isSystem ELSE FALSE

\* validateCourseGroup(group, excludeId) against the stored groups;
\* excludeId is <<>> for null
validateCourseGroup(group, excludeId, groups) ==
  (IF ~Has(group, "id") THEN << ValidationError("id", <<>>, <<>>) >>
   ELSE IF trim(group.id) = <<>> THEN << ValidationError("id", <<>>, <<>>) >>
   ELSE <<>>)
  \o (IF ~Has(group, "label") THEN << ValidationError("label", <<>>, <<>>) >>
      ELSE IF trim(group.label) = <<>> THEN << ValidationError("label", <<>>, <<>>) >>
      ELSE <<>>)
  \o (IF ~Has(group, "color") THEN << ValidationError("color", <<>>, <<>>) >>
      ELSE IF ~IsHexColor(group.color) THEN << ValidationError("color", <<>>, <<>>) >>
      ELSE <<>>)
  \o (IF ~Has(group, "order") THEN << ValidationError("order", <<>>, <<>>) >> ELSE <<>>)
  \o (IF ~Has(group, "id") THEN <<>>
      ELSE IF group.id = <<>> THEN <<>>
      ELSE LET duplicateId ==
                 \E g \in Range(groups) : << g.id >> # excludeId /\ g.id = group.id
           IN IF duplicateId /\ excludeId = <<>>
              THEN << ValidationError("id", <<>>, <<>>) >>
              ELSE <<>>)

\* kv.getCourseGroup(id): <<>> for null
getCourseGroup(groups, id) ==
  LET index == FindIndex(groups, LAMBDA g : g.id = id) IN
  IF index = 0 THEN <<>> ELSE << groups[index] >>

\* kv.createCourseGroup(group)
createCourseGroup(groups, group) == Append(groups, group)

\* kv.deleteCourseGroup(id, cascade): what it returns and what it leaves in
\* the two keys
deleteCourseGroup(groups, courses, id, cascade) ==
  LET filtered == SelectSeq(groups, LAMBDA g : g.id # id) IN
  IF Len(filtered) = Len(groups)
  THEN [deleted |-> FALSE, courseGroups |-> groups, courses |-> courses]
  ELSE [deleted |-> TRUE, courseGroups |-> filtered,
        courses |-> IF cascade THEN SelectSeq(courses, LAMBDA c : c.group # id)
                    ELSE courses]

\* mutant of deleteCourse: a forced delete leaves the teachers as they are
deleteCourse_KeepsAssignments(courses, teachers, id, force) ==
  LET filtered == SelectSeq(courses, LAMBDA c : c.id # id) IN
  IF Len(filtered) = Len(courses)
  THEN [deleted |-> FALSE, courses |-> courses, teachers |-> teachers]
  ELSE [deleted |-> TRUE, courses |-> filtered, teachers |-> teachers]

\* kv.deleteCourse(id, force): what it returns and what it leaves in the
\* two keys
deleteCourse(courses, teachers, id, force) ==
  LET filtered == SelectSeq(courses, LAMBDA c : c.id # id) IN
  IF Len(filtered) = Len(courses)
  THEN [deleted |-> FALSE, courses |-> courses, teachers |-> teachers]
  ELSE [deleted |-> TRUE, courses |-> filtered,
        teachers |->
          IF force
          THEN MapSeq(teachers,
                      LAMBDA teacher :
                        Merge(teacher,
                              [assignments |->
                                 SelectSeq(teacher.assignments,
                                           LAMBDA a : a.courseId # id)]))
          ELSE teachers]

\* the result of a catalog route: the status, the errors and the stores
\* afterwards
CatalogResult(status, errors, stores) ==
  [status |-> status, errors |-> errors, stores |-> stores]

\* POST /api/catalog/courseGroups; validation demands an id, so none is
\* ever generated
POST_courseGroups(stores, body) ==
  LET errors == validateCourseGroup(body, <<>>, stores.courseGroups) IN
  IF Len(errors) > 0 THEN CatalogResult(400, errors, stores)
  ELSE CatalogResult(201, <<>>,
         [stores EXCEPT !.courseGroups = createCourseGroup(@, body)])

\* PATCH /api/catalog/courseGroups/[id]
PATCH_courseGroups(stores, id, body) ==
  LET group == getCourseGroup(stores.courseGroups, id) IN
  IF group = <<>> THEN CatalogResult(404, <<>>, stores)
  ELSE IF /\ IsSystem(group[1])
          /\ Has(body, "id")
          /\ body.id # <<>>
          /\ body.id # id
       THEN CatalogResult(403, <<>>, stores)
  ELSE LET updatedGroup == Merge(group[1], body)
           errors == validateCourseGroup(updatedGroup, << id >>, stores.courseGroups)
       IN IF Len(errors) > 0 THEN CatalogResult(400, errors, stores)
          ELSE CatalogResult(200, <<>>,
                 [stores EXCEPT !.courseGroups = updateCourseGroup(@, id, body)])

\* DELETE /api/catalog/courseGroups/[id]?cascade=
DELETE_courseGroups(stores, id, cascade) ==
  LET group == getCourseGroup(stores.courseGroups, id) IN
  IF group = <<>> THEN CatalogResult(404, <<>>, stores)
  ELSE IF IsSystem(group[1]) THEN CatalogResult(403, <<>>, stores)
  ELSE LET referencedCourses == SelectSeq(stores.courses, LAMBDA c : c.group = id) IN
       IF Len(referencedCourses) > 0 /\ ~cascade THEN CatalogResult(409, <<>>, stores)
       ELSE LET r == deleteCourseGroup(stores.courseGroups, stores.courses, id, cascade)
            IN IF ~r.deleted THEN CatalogResult(404, <<>>, stores)
               ELSE CatalogResult(200, <<>>,
                      [stores EXCEPT !.courseGroups = r.courseGroups,
                                     !.courses = r.courses])

\* DELETE /api/catalog/courses/[id]?force=
DELETE_courses(stores, id, force) ==
  LET teachersWithCourse ==
        SelectSeq(stores.teachers,
                  LAMBDA t : \E a \in Range(t.assignments) : a.courseId = id)
  IN IF Len(teachersWithCourse) > 0 /\ ~force THEN CatalogResult(409, <<>>, stores)
     ELSE LET r == deleteCourse(stores.courses, stores.teachers, id, force)
          IN IF ~r.deleted THEN CatalogResult(404, <<>>, stores)
             ELSE CatalogResult(200, <<>>,
                    [stores EXCEPT !.courses = r.courses, !.teachers = r.teachers])

\* the stored catalog: the system group OTHER_SUBJECTS and two course groups
CatalogGroups ==
  << [id |-> sOTHER_SUBJECTS, label |-> sOTHER_SUBJECTS, color |-> sOrange,
      order |-> 0, columns |-> <<>>, isSystem |-> TRUE],
     [id |-> sCCW6, label |-> sCCW6, color |-> sOrange, order |-> 1,
      columns |-> <<colCCW6, colCCWE6>>],
     [id |-> sCCW7, label |-> sCCW7, color |-> sOrange, order |-> 2,
      columns |-> <<colCCW7>>] >>

\* request bodies of POST /api/catalog/courseGroups
PostGroupBodies ==
  { [id |-> sCCW7, label |-> sCCW7, color |-> sOrange, order |-> 2, columns |-> <<>>],
    [id |-> sCCW7, label |-> sCCW7, color |-> sRed, order |-> 2, columns |-> <<>>] }

\* request bodies of PATCH /api/catalog/courseGroups/[id]
PatchGroupBodies ==
  { [order |-> 5], [isSystem |-> FALSE], [id |-> sCCW7], [id |-> sOTHER_SUBJECTS],
    [label |-> <<>>] }

GroupIds == { sOTHER_SUBJECTS, sCCW6, sCCW7 }
CourseIds == { "c1", "c7", "c9" }

\* a catalog request: the stores and the response it leaves
CatalogRequest(op, id, body, flag, result) ==
  /\ kvTeachers' = result.stores.teachers
  /\ kvCourseGroups' = result.stores.courseGroups
  /\ kvCourses' = result.stores.courses
  /\ response' = Response(response.seq + 1, op, id, body, flag, result.status,
                          result.errors, Stores)
  /\ PageUnchanged

PostCourseGroup(body) ==
  /\ response.seq < MaxRequests
  /\ CatalogRequest("POST /api/catalog/courseGroups", <<>>, << body >>, FALSE,
                    POST_courseGroups(Stores, body))

PatchCourseGroup(id, body) ==
  /\ response.seq < MaxRequests
  /\ CatalogRequest("PATCH /api/catalog/courseGroups/[id]", << id >>, << body >>, FALSE,
                    PATCH_courseGroups(Stores, id, body))

DeleteCourseGroup(id, cascade) ==
  /\ response.seq < MaxRequests
  /\ CatalogRequest("DELETE /api/catalog/courseGroups/[id]", << id >>, <<>>, cascade,
                    DELETE_courseGroups(Stores, id, cascade))

DeleteCourse(id, force) ==
  /\ response.seq < MaxRequests
  /\ CatalogRequest("DELETE /api/catalog/courses/[id]", << id >>, <<>>, force,
                    DELETE_courses(Stores, id, force))

InitCatalog ==
  /\ kvTeachers \in InitialStores
  /\ kvCourseGroups = CatalogGroups
  /\ kvCourses = Courses
  /\ localStorage = <<>>
  /\ data = <<>>
  /\ isLoading = TRUE
  /\ error = FALSE
  /\ fetch = [phase |-> "requested", teachers |-> <<>>, courseGroups |-> <<>>]
  /\ patchPending = FALSE
  /\ edits = 0
  /\ state = DEFAULT_STATE
  /\ activeAssignment = <<>>
  /\ active = <<>>
  /\ sorting = <<>>
  /\ lastEvent = Event("other", <<>>)
  /\ emitted = <<>>
  /\ toasts = <<>>
  /\ response = NoResponse

NextCatalogApi ==
  \/ \E body \in PostGroupBodies : PostCourseGroup(body)
  \/ \E id \in GroupIds, body \in PatchGroupBodies : PatchCourseGroup(id, body)
  \/ \E id \in GroupIds, cascade \in BOOLEAN : DeleteCourseGroup(id, cascade)
  \/ \E id \in CourseIds, force \in BOOLEAN : DeleteCourse(id, force)

SpecCatalogApi == InitCatalog /\ [][NextCatalogApi]_vars

\* C23: a protected course group is never removed.  OTHER_SUBJECTS is
\* stored with isSystem set; after any sequence of creates, PATCHes with any
\* body and DELETEs with or without cascade a group with that id is still
\* in the stored catalog.
C23_SystemGroupKept ==
  \A g \in Range(CatalogGroups) :
    IsSystem(g) => \E h \in Range(kvCourseGroups) : h.id = g.id

\* the ids of a list of groups are pairwise different
UniqueIds(groups) ==
  \A i, j \in 1..Len(groups) : i # j => groups[i].id # groups[j].id

\* C24: course group ids are unique.  Creating a group whose id is already
\* stored is rejected and the store stays as it was, and after any
\* sequence of create, PATCH and DELETE no two stored groups share an id.
C24_UniqueGroupIds ==
  /\ UniqueIds(kvCourseGroups)
  /\ (/\ response.op = "POST /api/catalog/courseGroups"
      /\ \E g \in Range(response.before.courseGroups) : g.id = response.body[1].id)
       => /\ response.status = 400
          /\ Stores = response.before

ReferencedBefore(courseId) ==
  \E t \in Range(response.before.teachers) :
    \E a \in Range(t.assignments) : a.courseId = courseId

\* C25: protected course delete.  A DELETE of a course that some teacher's
\* assignment refers to is refused, with the catalog and all teachers as
\* they were, unless force is asked for; after a forced delete that
\* succeeds the course is gone from the catalog, no stored teacher has an
\* assignment with its id, and everything else of the teachers and of the
\* courses is as before.
C25_ProtectedCourseDelete ==
  response.op = "DELETE /api/catalog/courses/[id]" =>
    LET id == response.id[1]
        before == response.before
    IN /\ (ReferencedBefore(id) /\ ~response.flag)
            => response.status = 409 /\ Stores = before
       /\ (response.flag /\ response.status = 200)
            => /\ \A c \in Range(kvCourses) : c.id # id
               /\ \A t \in Range(kvTeachers) :
                    \A a \in Range(t.assignments) : a.courseId # id
               /\ Len(kvTeachers) = Len(before.teachers)
               /\ \A i \in 1..Len(kvTeachers) :
                    /\ kvTeachers[i].assignments =
                         SelectSeq(before.teachers[i].assignments,
                                   LAMBDA a : a.courseId # id)
                    /\ \A f \in DOMAIN before.teachers[i] \ {"assignments"} :
                         kvTeachers[i][f] = before.teachers[i][f]
               /\ kvCourses = SelectSeq(before.courses, LAMBDA c : c.id # id)
               /\ kvCourseGroups = before.courseGroups

\* a forced delete succeeded for a course that a teacher with another
\* assignment as well was assigned
C25_Witness ==
  /\ response.op = "DELETE /api/catalog/courses/[id]"
  /\ response.flag
  /\ response.status = 200
  /\ \E t \in Range(response.before.teachers) :
       /\ \E a \in Range(t.assignments) : a.courseId = response.id[1]
       /\ \E a \in Range(t.assignments) : a.courseId # response.id[1]

----------------------------------------------------------------------------
(* The order of the relocation checks *)

\* "CCW7_CCW6": a column of group CCW7 whose course name is CCW6
colCCW7_CCW6 == sCCW7 \o sUS \o sCCW6

\* a catalog in which two groups have a column of the same course name
TwinGroups ==
  << [id |-> sCCW6, order |-> 1, columns |-> <<colCCW6>>, columnMetadata |-> <<>>],
     [id |-> sCCW7, order |-> 2, columns |-> <<colCCW7, colCCW7_CCW6>>,
      columnMetadata |-> <<>>] >>

InitOrder ==
  /\ kvTeachers \in InitialStores
  /\ kvCourseGroups = TwinGroups
  /\ kvCourses = Courses
  /\ localStorage = <<>>
  /\ data = <<>>
  /\ isLoading = TRUE
  /\ error = FALSE
  /\ fetch = [phase |-> "requested", teachers |-> <<>>, courseGroups |-> <<>>]
  /\ patchPending = FALSE
  /\ edits = 0
  /\ state = DEFAULT_STATE
  /\ activeAssignment = <<>>
  /\ active = <<>>
  /\ sorting = <<>>
  /\ lastEvent = Event("other", <<>>)
  /\ emitted = <<>>
  /\ toasts = <<>>
  /\ response = NoResponse

NextOrder ==
  \/ FetchRead
  \/ FetchResolve
  \/ \E cell \in RenderedCells : handleDragStart(cell)
  \/ \E over \in {<<>>} \cup { << Droppable(c) >> : c \in RenderedCells } : DragEnd(over)
  \/ DragCancel

SpecOrder == InitOrder /\ [][NextOrder]_vars

\* the last step was a drop on a cell of the same teacher and course name
IsSameTeacherAndCourseDrop ==
  /\ IsDrop(lastEvent)
  /\ DropDataOf(lastEvent).teacherId = DragDataOf(lastEvent).teacherId
  /\ DropDataOf(lastEvent).courseName = DragDataOf(lastEvent).assignment.courseName

\* the last step was a drop on a cell of another group
IsOtherGroupDrop ==
  /\ IsDrop(lastEvent)
  /\ DropDataOf(lastEvent).courseGroup # DragDataOf(lastEvent).courseGroup

ShowsCrossGroupError ==
  \E i \in 1..Len(toasts) :
    /\ toasts[i].type = "error"
    /\ toasts[i].description = "Cannot drop assignment to a different course group"

\* C26 as stated: the identical-(staff, course) check is evaluated before
\* the same-group check, so a drop on the same teacher and course name is
\* the identity no-op, without a cross-group error, also when the target is
\* in another group.
C26_IdentityCheckedFirst ==
  IsSameTeacherAndCourseDrop => emitted = <<>> /\ ~ShowsCrossGroupError

\* C26 amended: the same-group check is evaluated before the same-cell
\* check.  A drop on another group is rejected with the cross-group error
\* also when teacher and course name are those of the source; a drop on
\* the same teacher and course name within the group is rejected silently.
C26_GroupCheckedFirst ==
  /\ IsOtherGroupDrop => emitted = <<>> /\ ShowsCrossGroupError
  /\ (IsSameTeacherAndCourseDrop /\ ~IsOtherGroupDrop) => emitted = <<>> /\ toasts = <<>>

\* a drop that fails both checks
C26_Witness == IsSameTeacherAndCourseDrop /\ IsOtherGroupDrop

----------------------------------------------------------------------------
(* Home: creating, updating and deleting a teacher through the forms *)

\* teacher forms submitted in one behaviour
MaxSubmits == 1

\* TeacherFormDialog.onFormSubmit: preps and students are computed from the
\* assignments before the data is submitted
SubmissionData(name, division, maxLoad, assignments) ==
  [name |-> name, division |-> division, maxLoad |-> maxLoad,
   preps |-> Len(assignments),
   students |-> SumSeq(MapSeq(assignments, StudentsOf)),
   assignments |-> assignments]

\* the data the teacher form is submitted with: a teacher with a CPT
\* assignment, and the name of a stored teacher in another case
TeacherForms ==
  { SubmissionData(sCy, "HS", 3, << Asg("c7", sCCW7, sCCW7, 4, TRUE, 2) >>),
    SubmissionData(sANN, "MS", 4, <<>>) }

\* handleCreateTeacher: teacherApi.create, then the new row is enhanced and
\* put in front; a rejected request ends in the catch
handleCreateTeacher(formData) ==
  /\ GridMounted
  /\ active = <<>>
  /\ response.seq < MaxSubmits
  /\ LET result == POST_teachers(kvTeachers, formData, NewIds[response.seq + 1]) IN
     /\ kvTeachers' = result.teachers
     /\ response' = Response(response.seq + 1, "POST /api/teachers", <<>>,
                             << formData >>, FALSE, result.status, result.errors, Stores)
     /\ IF result.status = 201
        THEN /\ data' = << [data[1] EXCEPT !.teachers =
                              << enhanceTeacherWithMetrics(result.json[1]) >> \o @] >>
             /\ toasts' = << Toast("success", "Teacher created successfully", "") >>
        ELSE /\ data' = data
             /\ toasts' = << Toast("error", "Failed to create teacher", "") >>
  /\ lastEvent' = Event("other", <<>>)
  /\ emitted' = <<>>
  /\ UNCHANGED <<kvCourseGroups, kvCourses, isLoading, error, fetch, patchPending,
                 edits, state, activeAssignment, active, localStorage, sorting>>

\* handleUpdateTeacher for the row being edited: teacherApi.update, then the
\* row is replaced by the enhanced response
handleUpdateTeacher(editingTeacherId, formData) ==
  /\ GridMounted
  /\ active = <<>>
  /\ response.seq < MaxSubmits
  /\ \E t \in Range(Teachers) : t.id = editingTeacherId
  /\ LET result == PATCH_teachers(kvTeachers, editingTeacherId, formData) IN
     /\ kvTeachers' = result.teachers
     /\ response' = Response(response.seq + 1, "PATCH /api/teachers/[id]",
                             << editingTeacherId >>, << formData >>, FALSE,
                             result.status, result.errors, Stores)
     /\ IF result.status = 200
        THEN /\ data' = << [data[1] EXCEPT !.teachers =
                              MapSeq(@, LAMBDA t :
                                IF t.id = editingTeacherId
                                THEN enhanceTeacherWithMetrics(result.json[1])
                                ELSE t)] >>
             /\ toasts' = << Toast("success", "Teacher updated successfully", "") >>
        ELSE /\ data' = data
             /\ toasts' = << Toast("error", "Failed to update teacher", "") >>
  /\ lastEvent' = Event("other", <<>>)
  /\ emitted' = <<>>
  /\ UNCHANGED <<kvCourseGroups, kvCourses, isLoading, error, fetch, patchPending,
                 edits, state, activeAssignment, active, localStorage, sorting>>

\* handleDeleteTeacher for the row being deleted: teacherApi.delete, then
\* the row is filtered out
handleDeleteTeacher(deletingTeacherId) ==
  /\ GridMounted
  /\ active = <<>>
  /\ response.seq < MaxSubmits
  /\ \E t \in Range(Teachers) : t.id = deletingTeacherId
  /\ LET result == DELETE_teachers(kvTeachers, deletingTeacherId) IN
     /\ kvTeachers' = result.teachers
     /\ response' = Response(response.seq + 1, "DELETE /api/teachers/[id]",
                             << deletingTeacherId >>, <<>>, FALSE,
                             result.status, result.errors, Stores)
     /\ IF result.status = 200
        THEN /\ data' = << [data[1] EXCEPT !.teachers =
                              SelectSeq(@, LAMBDA t : t.id # deletingTeacherId)] >>
             /\ toasts' = << Toast("success", "Teacher deleted successfully", "") >>
        ELSE /\ data' = data
             /\ toasts' = << Toast("error", "Failed to delete teacher", "") >>
  /\ lastEvent' = Event("other", <<>>)
  /\ emitted' = <<>>
  /\ UNCHANGED <<kvCourseGroups, kvCourses, isLoading, error, fetch, patchPending,
                 edits, state, activeAssignment, active, localStorage, sorting>>

RowIds == { "t1", "n1" }

\* the rows of the grid under load, create, update, delete and relocation
NextRows ==
  \/ FetchRead
  \/ FetchResolve
  \/ \E formData \in TeacherForms : handleCreateTeacher(formData)
  \/ \E id \in RowIds, formData \in TeacherForms : handleUpdateTeacher(id, formData)
  \/ \E id \in RowIds : handleDeleteTeacher(id)
  \/ \E cell \in RenderedCells : handleDragStart(cell)
  \/ \E over \in {<<>>} \cup { << Droppable(c) >> : c \in RenderedCells } : DragEnd(over)

\* the page over the store of one teacher with an assignment and one without
InitRows == Init /\ kvTeachers = StoreOneZero

SpecRows == InitRows /\ [][NextRows]_vars

----------------------------------------------------------------------------
(* The frame of a relocation *)

RowsOf(d) == IF d = <<>> THEN <<>> ELSE d[1].teachers

\* C29: frame of a relocation.  An accepted relocation leaves every teacher
\* other than the source and the destination as it was, leaves id, name,
\* division and maxLoad of every teacher as they were, and the assignment
\* it puts into the destination is the moved one with nothing but its
\* courseName changed; a rejected relocation leaves all rows as they were.
C29_RelocationFrame ==
  [][(active # <<>> /\ lastEvent'.op = "dragEnd")
       => LET before == RowsOf(data)
              after == RowsOf(data')
              dragData == active[1].data
          IN IF emitted' = <<>> THEN after = before
             ELSE LET dropData == lastEvent'.event[1].over[1].data
                      target == FindTeacher(after, dropData.teacherId)[1]
                      moved == target.assignments[Len(target.assignments)]
                  IN /\ Len(after) = Len(before)
                     /\ \A i \in 1..Len(before) :
                          /\ after[i].id = before[i].id
                          /\ after[i].name = before[i].name
                          /\ after[i].division = before[i].division
                          /\ after[i].maxLoad = before[i].maxLoad
                          /\ before[i].id \notin {dragData.teacherId, dropData.teacherId}
                               => after[i] = before[i]
                     /\ moved.courseName = dropData.courseName
                     /\ moved.courseId = dragData.assignment.courseId
                     /\ moved.courseGroup = dragData.assignment.courseGroup
                     /\ moved.load = dragData.assignment.load
                     /\ moved.isCPT = dragData.assignment.isCPT
                     /\ moved.students = dragData.assignment.students]_vars

\* an accepted relocation within one row, next to a row that it leaves alone
C29_Witness ==
  /\ lastEvent.op = "dragEnd"
  /\ IsSameTeacherCall(emitted)
  /\ \E t \in Range(Teachers) :
       t.id # emitted[1].teacherId /\ t.assignments # <<>>
====
